---- MODULE Spec2Model ----
(***************************************************************************)
(* Model of two programs of the repository:                                *)
(*   src/3_Shapley_values.py  - shapley_values(dic_legend, dic_v)          *)
(*   src/2_power_law_the_self_organized_criticality_model.py               *)
(*                            - set_fire / forest_fire_model               *)
(* The Shapley loop is modelled one inner-loop iteration per step; the     *)
(* forest-fire loop one time point per step.                               *)
(***************************************************************************)
EXTENDS Integers, Sequences, FiniteSets, TLC

\* ------------------------------------------------------------------------
\* Bounds of the model
\* ------------------------------------------------------------------------
MaxPlayers == 3

MaxVal == 2

GridN == 3

NSims == 2

\* ------------------------------------------------------------------------
\* IEEE-754 binary64 arithmetic (round to nearest, ties to even), as far as
\* numpy uses it in lines 81-88 of 3_Shapley_values.py: int/int true
\* division (mean), float addition (np.sum) and float == int comparison.
\* A double is [sgn, exp, man]: man is the 53-bit significand, most
\* significant bit first (man[1] = 1 unless the value is zero), exp the
\* binary exponent of man[1].  Exponents stay far from the subnormal and
\* overflow ranges for the values the model produces.
\* ------------------------------------------------------------------------
MantBits == 53

Abs(x) == IF x < 0 THEN -x ELSE x

Zeros(n) == [k \in 1..n |-> 0]

FZero == [sgn |-> 0, exp |-> 0, man |-> Zeros(MantBits)]

IsFZero(x) == x.man = Zeros(MantBits)

\* The carries of X + Y + cin for two bit strings of equal length: Carry[k]
\* is the carry out of position k (Carry[Len + 1] = cin).  Carries are
\* chained over blocks of 8 bits and looked ahead inside a block.
CarryOut(X, Y, a, b, cin) ==
  \/ \E j \in a..b : /\ X[j] + Y[j] = 2
                     /\ \A m \in a..(j - 1) : X[m] + Y[m] >= 1
  \/ cin = 1 /\ \A m \in a..b : X[m] + Y[m] >= 1

Carry(X, Y, cin) ==
  LET L == Len(X)
      cb[k \in {j \in 1..(L + 1) : (L + 1 - j) % 8 = 0}] ==
        IF k = L + 1 THEN cin
        ELSE IF CarryOut(X, Y, k, k + 7, cb[k + 8]) THEN 1 ELSE 0
  IN  [k \in 1..(L + 1) |->
        LET e == k + ((L + 1 - k) % 8)
        IN  IF e = k THEN cb[k]
            ELSE IF CarryOut(X, Y, k, e - 1, cb[e]) THEN 1 ELSE 0]

\* X + Y + cin; the result is one bit longer (the carry out in front)
AddBits(X, Y, cin) ==
  LET c == Carry(X, Y, cin)
  IN  <<c[1]>> \o [k \in 1..Len(X) |-> (X[k] + Y[k] + c[k + 1]) % 2]

\* binary increment of a bit string; one bit longer
IncBits(b) == AddBits(b, Zeros(Len(b)), 1)

\* X - Y for two bit strings of equal length with X >= Y (two's complement)
SubBits(X, Y) ==
  Tail(AddBits(X, [k \in 1..Len(Y) |-> 1 - Y[k]], 1))

\* X < Y for two bit strings of equal length
LessBits(X, Y) ==
  \E k \in 1..Len(X) : /\ X[k] < Y[k]
                       /\ \A j \in 1..(k - 1) : X[j] = Y[j]

\* b without its leading zeros
StripZeros(b) ==
  IF \A k \in 1..Len(b) : b[k] = 0 THEN <<>>
  ELSE LET f == CHOOSE k \in 1..Len(b) :
                  b[k] = 1 /\ \A j \in 1..(k - 1) : b[j] = 0
       IN  SubSeq(b, f, Len(b))

\* Round the non-negative integer with bit string b (no leading zero, not
\* empty), whose last bit weighs 2^lsbExp, to a double of sign s.
RoundBits(s, b, lsbExp) ==
  LET L == Len(b)
  IN  IF L <= MantBits
      THEN [sgn |-> s, exp |-> lsbExp + L - 1, man |-> b \o Zeros(MantBits - L)]
      ELSE LET top    == SubSeq(b, 1, MantBits)
               guard  == b[MantBits + 1]
               sticky == \E k \in (MantBits + 2)..L : b[k] = 1
               up     == guard = 1 /\ (sticky \/ top[MantBits] = 1)
               inc    == IncBits(top)
           IN  IF ~up
               THEN [sgn |-> s, exp |-> lsbExp + L - 1, man |-> top]
               ELSE IF inc[1] = 1
                    THEN [sgn |-> s, exp |-> lsbExp + L,
                          man |-> SubSeq(inc, 1, MantBits)]
                    ELSE [sgn |-> s, exp |-> lsbExp + L - 1, man |-> Tail(inc)]

\* x + y
FAdd(x, y) ==
  IF IsFZero(x) THEN y
  ELSE IF IsFZero(y) THEN x
  ELSE
    LET lo  == IF x.exp < y.exp THEN x.exp ELSE y.exp
        hi  == IF x.exp < y.exp THEN y.exp ELSE x.exp
        X   == Zeros(hi - x.exp) \o x.man \o Zeros(x.exp - lo)
        Y   == Zeros(hi - y.exp) \o y.man \o Zeros(y.exp - lo)
        lsb == lo - (MantBits - 1)
    IN  IF x.sgn = y.sgn
        THEN RoundBits(x.sgn, StripZeros(AddBits(X, Y, 0)), lsb)
        ELSE IF X = Y THEN FZero
        ELSE IF LessBits(X, Y)
             THEN RoundBits(y.sgn, StripZeros(SubBits(Y, X)), lsb)
             ELSE RoundBits(x.sgn, StripZeros(SubBits(X, Y)), lsb)

\* scale a (or d) by powers of two until d <= a < 2d; e counts the scaling
RECURSIVE Normalize(_, _, _)
Normalize(a, d, e) ==
  IF a >= 2 * d THEN Normalize(a, 2 * d, e + 1)
  ELSE IF a < d THEN Normalize(2 * a, d, e - 1)
  ELSE <<a, d, e>>

\* the 8 bits of q (0 <= q < 256), most significant first
Byte(q) == [j \in 1..8 |-> (q \div (2 ^ (8 - j))) % 2]

\* long division, 8 bits a step: the next 8k bits of r/d (0 <= r < d), then
\* one more entry telling whether anything is left after them
RECURSIVE DivBits(_, _, _)
DivBits(r, d, k) ==
  IF k = 0
  THEN <<IF r > 0 THEN 1 ELSE 0>>
  ELSE Byte((r * 256) \div d) \o DivBits((r * 256) % d, d, k - 1)

\* n / d for integers n and d > 0, correctly rounded
FDiv(n, d) ==
  IF n = 0 THEN FZero
  ELSE LET nd == Normalize(Abs(n), d, 0)
           \* the leading 1, then 56 more bits and the sticky entry
           q  == <<1>> \o DivBits(nd[1] - nd[2], nd[2], 7)
       IN  RoundBits(IF n < 0 THEN 1 ELSE 0, q, nd[3] - (Len(q) - 1))

\* the double equal to a (small) integer
FromInt(n) == FDiv(n, 1)

\* x < y
FLess(x, y) ==
  LET mag(a, b) == \* |a| < |b|, neither zero
        a.exp < b.exp \/ (a.exp = b.exp /\ LessBits(a.man, b.man))
  IN  IF IsFZero(x) THEN ~IsFZero(y) /\ y.sgn = 0
      ELSE IF IsFZero(y) THEN x.sgn = 1
      ELSE IF x.sgn # y.sgn THEN x.sgn = 1
      ELSE IF x.sgn = 0 THEN mag(x, y) ELSE mag(y, x)

\* ------------------------------------------------------------------------
\* shapley_values(dic_legend, dic_v)            src/3_Shapley_values.py
\* ------------------------------------------------------------------------
VARIABLES
  objects_list,        \* the keys of dic_legend, in insertion order (line 52)
  dic_v,               \* the value function: coalition key -> value
  pn,                  \* 1-based index in perms_list of the permutation at hand
  i,                   \* enumerate index inside the permutation (line 62)
  dic_marginal,        \* player -> list of marginal contributions (line 56)
  marginal_keys,       \* insertion order of the keys of dic_marginal
  till_element_key,    \* locals of the last iteration (lines 73, 74, 78)
  before_element_key,
  val,
  shapley_vals,        \* player -> mean (line 81); None until computed
  pc,                  \* "loop", "returned" or the exception raised
  err                  \* the key a KeyError carries

VARIABLES
  grd,                 \* the padded (N+2)x(N+2) grid (line 80)
  t,                   \* number of time points simulated so far (line 100)
  grd_sims,            \* the grids of all time points (lines 96, 137)
  loc_sims,            \* the picked locations (line 140)
  is_tree_sims,        \* line 108 / 119
  will_tree_sims,      \* lines 113-126
  comp_size_sims       \* component sizes after each time point (line 133)

shapley_vars == <<objects_list, dic_v, pn, i, dic_marginal, marginal_keys,
                  till_element_key, before_element_key, val, shapley_vals,
                  pc, err>>

fire_vars == <<grd, t, grd_sims, loc_sims, is_tree_sims, will_tree_sims,
               comp_size_sims>>

vars == <<shapley_vars, fire_vars>>

None == "None"

RECURSIVE Fact(_)
Fact(n) == IF n <= 1 THEN 1 ELSE n * Fact(n - 1)

RemoveAt(s, k) == [j \in 1..(Len(s) - 1) |-> IF j < k THEN s[j] ELSE s[j + 1]]

\* a loop that never moves on to another order of the players
NthPermSame(s, k) == s

\* itertools.permutations(s): the k-th tuple (k from 0), in the order
\* itertools emits them (lexicographic in the positions of s)
RECURSIVE NthPerm(_, _)
NthPerm(s, k) ==
  IF s = <<>> THEN <<>>
  ELSE LET f   == Fact(Len(s) - 1)
           idx == (k \div f) + 1
       IN  <<s[idx]>> \o NthPerm(RemoveAt(s, idx), k % f)

\* len(perms_list)
NumPerms == Fact(Len(objects_list))

\* perms_list[n - 1]
Perm(n) == NthPerm(objects_list, n - 1)

\* sorted(s)
RECURSIVE Insert(_, _)
Insert(x, s) ==
  IF s = <<>> THEN <<x>>
  ELSE IF x <= s[1] THEN <<x>> \o s
  ELSE <<s[1]>> \o Insert(x, Tail(s))

\* the prefix joined in arrival order
SortedNot(s) == s

RECURSIVE Sorted(_)
Sorted(s) == IF s = <<>> THEN <<>> ELSE Insert(s[1], Sorted(Tail(s)))

\* len(str(x)) for x >= 0
RECURSIVE StrLen(_)
StrLen(x) == IF x < 10 THEN 1 ELSE 1 + StrLen(x \div 10)

\* int(''.join([str(x) for x in s])) for a non-empty s
RECURSIVE JoinInt(_)
JoinInt(s) ==
  IF s = <<>> THEN 0
  ELSE JoinInt(SubSeq(s, 1, Len(s) - 1)) * (10 ^ StrLen(s[Len(s)])) + s[Len(s)]

\* the players of the prefix joined largest first
CoalitionKeyReversed(prefix) ==
  JoinInt([k \in 1..Len(prefix) |-> Sorted(prefix)[Len(prefix) + 1 - k]])

\* lines 73, 74: the lookup key of a prefix of a permutation
CoalitionKey(prefix) == JoinInt(Sorted(prefix))

\* a lookup that makes up the value 0 for an absent key, as dic_v.get(key, 0)
LookupDefault(dv, key) ==
  <<TRUE, IF key \in DOMAIN dv THEN dv[key] ELSE 0>>

\* dic_v[key] on a plain dict: <<TRUE, value>>, or <<FALSE, key>> when the
\* lookup raises KeyError(key)
Lookup(dv, key) ==
  IF key \in DOMAIN dv THEN <<TRUE, dv[key]>> ELSE <<FALSE, key>>

\* the difference taken the wrong way round
MarginalSwapped(till_val, before_val) == before_val - till_val

\* the value of the coalition before the player joined is not subtracted
MarginalNoSubtract(till_val, before_val) == till_val

\* line 78
Marginal(till_val, before_val) == till_val - before_val

\* the list of the player is replaced instead of extended
AppendedOverwrite(dm, element, v) ==
  [k \in DOMAIN dm \cup {element} |-> IF k = element THEN <<v>> ELSE dm[k]]

\* dic_marginal[element].append(v) on a defaultdict(list)
Appended(dm, element, v) ==
  IF element \in DOMAIN dm
  THEN [dm EXCEPT ![element] = Append(@, v)]
  ELSE [k \in DOMAIN dm \cup {element} |->
          IF k = element THEN <<v>> ELSE dm[k]]

\* sum of s[lo..hi], halving the range
RECURSIVE SumRange(_, _, _)
SumRange(s, lo, hi) ==
  IF lo > hi THEN 0
  ELSE IF lo = hi THEN s[lo]
  ELSE LET mid == (lo + hi) \div 2
       IN  SumRange(s, lo, mid) + SumRange(s, mid + 1, hi)

\* np.array(v).mean() for a non-empty list of ints (line 81)
Mean(v) == FDiv(SumRange(v, 1, Len(v)), Len(v))

\* np.sum over the float array built from shapley_vals.values() (lines 84,
\* 88): for fewer than 8 elements numpy adds them one by one, left to right,
\* starting from 0.0
RECURSIVE FSum(_, _)
FSum(sv, keys) ==
  IF keys = <<>> THEN FZero
  ELSE FAdd(FSum(sv, SubSeq(keys, 1, Len(keys) - 1)), sv[keys[Len(keys)]])

\* keys_dic_v[-1] (lines 85, 88): dic_v lists its keys in increasing order
\* (lines 45-46), so the last key is the largest
LastKey(dv) == CHOOSE k \in DOMAIN dv : \A j \in DOMAIN dv : j <= k

\* ------------------------------------------------------------------------
\* Inputs
\* ------------------------------------------------------------------------
\* the members of a set of players, ascending
RECURSIVE SeqOf(_)
SeqOf(S) ==
  IF S = {} THEN <<>>
  ELSE LET m == CHOOSE x \in S : \A y \in S : x <= y
       IN  <<m>> \o SeqOf(S \ {m})

Range(s) == {s[k] : k \in 1..Len(s)}

Players == Range(objects_list)

\* the non-empty coalitions of a set of players, and their keys in dic_v
Coalitions(P) == (SUBSET P) \ {{}}

\* line 141: the key of a combination of players
KeyOfSet(S) == JoinInt(SeqOf(S))

AllKeys(P) == {KeyOfSet(S) : S \in Coalitions(P)}

\* dic_v holds a value for every non-empty coalition of the players
Complete == AllKeys(Players) \subseteq DOMAIN dic_v

\* Example 1 (Speakers), lines 98-109
SpeakersLegend == <<1, 2, 3>>

SpeakersV ==
  [k \in {1, 2, 3, 12, 13, 23, 123} |-> IF k \in {1, 2} THEN 0 ELSE 1200]

\* Example 2 (crew team), lines 128-150
CrewLegend == <<1, 2, 3, 4, 5, 6>>

CrewV ==
  [k \in AllKeys(Range(CrewLegend)) |->
     IF k = 12345 THEN 2
     ELSE IF k \in {12346, 12356, 12456, 13456, 23456, 123456} THEN 10
     ELSE 0]

\* the state shapley_values starts its loop in (lines 52-56)
Start(legend, v) ==
  /\ objects_list = legend
  /\ dic_v = v
  /\ pn = 1
  /\ i = 0
  /\ dic_marginal = <<>>
  /\ marginal_keys = <<>>
  /\ till_element_key = None
  /\ before_element_key = None
  /\ val = None
  /\ shapley_vals = None
  /\ pc = "loop"
  /\ err = None

\* the forest-fire program is not running
FireIdle ==
  /\ grd = <<>>
  /\ t = 0
  /\ grd_sims = <<>>
  /\ loc_sims = <<>>
  /\ is_tree_sims = <<>>
  /\ will_tree_sims = <<>>
  /\ comp_size_sims = <<>>

\* Calls of shapley_values: players 1..n for n up to MaxPlayers with any
\* value function, complete or not, with values in 0..MaxVal over the
\* coalition keys (dic_v may also hold the key 1 when there is no player),
\* and the two calls the script makes.
Init ==
  /\ FireIdle
  /\ \/ \E n \in 0..MaxPlayers :
          \E D \in SUBSET (AllKeys(1..n) \cup {1}) :
            \E v \in [D -> 0..MaxVal] :
              Start([k \in 1..n |-> k], v)
     \/ Start(SpeakersLegend, SpeakersV)
     \/ Start(CrewLegend, CrewV)

\* ------------------------------------------------------------------------
\* The loop of lines 59-79, one (perm, i) iteration per step
\* ------------------------------------------------------------------------
\* the next (pn, i) of the two nested for loops
Advance ==
  IF i + 1 < Len(objects_list)
  THEN pn' = pn /\ i' = i + 1
  ELSE pn' = pn + 1 /\ i' = 0

KeyError(key) ==
  /\ pc' = "KeyError"
  /\ err' = key
  /\ UNCHANGED <<pn, i, dic_marginal, marginal_keys, val>>

Accumulate(element, v) ==
  /\ val' = v
  /\ dic_marginal' = Appended(dic_marginal, element, v)
  /\ marginal_keys' = IF element \in DOMAIN dic_marginal
                      THEN marginal_keys
                      ELSE Append(marginal_keys, element)
  /\ Advance
  /\ UNCHANGED <<pc, err>>

InLoop == pc = "loop" /\ Len(objects_list) > 0 /\ pn <= NumPerms

\* lines 68-70: nothing before the element
FirstElement ==
  /\ InLoop
  /\ i = 0
  /\ LET element == Perm(pn)[1]
         v       == Lookup(dic_v, element)
     IN  IF v[1] THEN Accumulate(element, v[2]) ELSE KeyError(v[2])
  /\ UNCHANGED <<objects_list, dic_v, till_element_key, before_element_key,
                 shapley_vals, fire_vars>>

\* lines 72-79
LaterElement ==
  /\ InLoop
  /\ i > 0
  /\ LET perm    == Perm(pn)
         element == perm[i + 1]
         tk      == CoalitionKey(SubSeq(perm, 1, i + 1))
         bk      == CoalitionKey(SubSeq(perm, 1, i))
         till_val   == Lookup(dic_v, tk)
         before_val == Lookup(dic_v, bk)
     IN  /\ till_element_key' = tk
         /\ before_element_key' = bk
         /\ IF ~till_val[1] THEN KeyError(till_val[2])
            ELSE IF ~before_val[1] THEN KeyError(before_val[2])
            ELSE Accumulate(element, Marginal(till_val[2], before_val[2]))
  /\ UNCHANGED <<objects_list, dic_v, shapley_vals, fire_vars>>

\* lines 81-91: the means, the check of their sum, the return
Finish ==
  /\ pc = "loop"
  /\ Len(objects_list) = 0 \/ pn > NumPerms
  /\ LET sv == [k \in DOMAIN dic_marginal |-> Mean(dic_marginal[k])]
     IN  /\ shapley_vals' = sv
         /\ pc' = IF DOMAIN dic_v = {} THEN "IndexError"
                  ELSE IF FSum(sv, marginal_keys) = FromInt(dic_v[LastKey(dic_v)])
                       THEN "returned"
                       ELSE "AssertionError"
  /\ UNCHANGED <<objects_list, dic_v, pn, i, dic_marginal, marginal_keys,
                 till_element_key, before_element_key, val, err, fire_vars>>

Next == FirstElement \/ LaterElement \/ Finish

Spec == Init /\ [][Next]_vars

\* the two calls the script itself makes (lines 111 and 153)
InitExamples ==
  /\ FireIdle
  /\ \/ Start(SpeakersLegend, SpeakersV)
     \/ Start(CrewLegend, CrewV)

SpecExamples == InitExamples /\ [][Next]_vars

\* calls with up to MaxPlayers players whose identifiers are any digits
\* 1..9, every coalition valued 0
PlayerIds == 1..9

InitKeys ==
  /\ FireIdle
  /\ \E P \in SUBSET PlayerIds :
       /\ Cardinality(P) \in 1..MaxPlayers
       /\ Start(SeqOf(P), [k \in AllKeys(P) |-> 0])

SpecKeys == InitKeys /\ [][Next]_vars

\* calls with players 1..n for n up to MaxPlayers in which any set of
\* coalitions is absent from dic_v; the coalition with key k is worth
\* k mod (MaxVal + 1)
InitMissing ==
  /\ FireIdle
  /\ \E n \in 1..MaxPlayers :
       \E D \in SUBSET AllKeys(1..n) :
         Start([k \in 1..n |-> k], [k \in D |-> k % (MaxVal + 1)])

SpecMissing == InitMissing /\ [][Next]_vars

TypeOK ==
  /\ pc \in {"loop", "returned", "KeyError", "AssertionError", "IndexError"}
  /\ pn \in 1..(NumPerms + 1)
  /\ i \in 0..Len(objects_list)

\* ------------------------------------------------------------------------
\* Properties of shapley_values
\* ------------------------------------------------------------------------
NumPlayers == Len(objects_list)

\* the key of the grand coalition
Grand == KeyOfSet(Players)

\* line 81 has been executed
Computed == pc \in {"returned", "AssertionError", "IndexError"}

\* the call is over: it returned or raised
Ended == pc # "loop"

\* number of marginal contributions accumulated for a player
Count(pl) == IF pl \in DOMAIN dic_marginal THEN Len(dic_marginal[pl]) ELSE 0

\* the coalition S with players a and b swapped
Swap(S, a, b) ==
  {IF x = a THEN b ELSE IF x = b THEN a ELSE x : x \in S}

Interchangeable(a, b) ==
  \A S \in Coalitions(Players) :
    dic_v[KeyOfSet(S)] = dic_v[KeyOfSet(Swap(S, a, b))]

NullPlayer(pl) ==
  /\ dic_v[pl] = 0
  /\ \A S \in Coalitions(Players \ {pl}) :
       dic_v[KeyOfSet(S \cup {pl})] = dic_v[KeyOfSet(S)]

\* the members of the first n players of permutation q, and the key line 69
\* or line 73 looks up for them
PrefixSet(q, n) == Range(SubSeq(Perm(q), 1, n))

PrefixKey(q, n) ==
  IF n = 1 THEN Perm(q)[1] ELSE CoalitionKey(SubSeq(Perm(q), 1, n))

\* C1 (efficiency): for every non-empty player set and every complete value
\* function, the call returns Shapley values whose sum is exactly the value
\* of the grand coalition.
C1_Efficiency ==
  (NumPlayers > 0 /\ Complete /\ Ended) =>
     /\ pc = "returned"
     /\ FSum(shapley_vals, marginal_keys) = FromInt(dic_v[Grand])

IsSpeakersCall == objects_list = SpeakersLegend /\ dic_v = SpeakersV

\* C2 as stated (speakers scenario): the call of Example 1 returns 100 for
\* players 1 and 2 and 1000 for player 3, summing to 1200.
C2_SpeakersOriginal ==
  (IsSpeakersCall /\ Ended) =>
     /\ pc = "returned"
     /\ shapley_vals[1] = FromInt(100)
     /\ shapley_vals[2] = FromInt(100)
     /\ shapley_vals[3] = FromInt(1000)
     /\ FSum(shapley_vals, marginal_keys) = FromInt(1200)

\* C2 amended (speakers scenario): the call of Example 1 returns 200 for
\* players 1 and 2 and 800 for player 3, summing to 1200.
C2_SpeakersAmended ==
  (IsSpeakersCall /\ Ended) =>
     /\ pc = "returned"
     /\ DOMAIN shapley_vals = {1, 2, 3}
     /\ shapley_vals[1] = FromInt(200)
     /\ shapley_vals[2] = FromInt(200)
     /\ shapley_vals[3] = FromInt(800)
     /\ FSum(shapley_vals, marginal_keys) = FromInt(1200)

C2_Witness == IsSpeakersCall /\ pc = "returned"

IsCrewCall == objects_list = CrewLegend /\ dic_v = CrewV

\* C3 as stated (crew scenario): six values summing to 10, players 1..5
\* equal, player 6 strictly lower than each of them.
C3_CrewOriginal ==
  (IsCrewCall /\ Ended) =>
     /\ pc = "returned"
     /\ FSum(shapley_vals, marginal_keys) = FromInt(10)
     /\ \A k \in 1..5 : shapley_vals[k] = shapley_vals[1]
     /\ \A k \in 1..5 : FLess(shapley_vals[6], shapley_vals[k])

\* C3 amended (crew scenario): six values summing to 10, players 1..5 equal,
\* player 6 strictly HIGHER than each of them.
C3_CrewAmended ==
  (IsCrewCall /\ Ended) =>
     /\ pc = "returned"
     /\ DOMAIN shapley_vals = 1..6
     /\ FSum(shapley_vals, marginal_keys) = FromInt(10)
     /\ \A k \in 1..5 : shapley_vals[k] = shapley_vals[1]
     /\ \A k \in 1..5 : FLess(shapley_vals[k], shapley_vals[6])

C3_Witness == IsCrewCall /\ pc = "returned"

\* C4 (permutation count): with a complete value function, after k whole
\* permutations every player's list has k entries, and when the loop is over
\* it has N! entries.
C4_PermCount ==
  (NumPlayers >= 1 /\ Complete) =>
     /\ (pc = "loop" /\ i = 0) => \A pl \in Players : Count(pl) = pn - 1
     /\ Ended => \A pl \in Players : Count(pl) = Fact(NumPlayers)

C4_Witness ==
  /\ NumPlayers >= 3
  /\ Complete
  /\ Computed
  /\ \A pl \in Players : Count(pl) = Fact(NumPlayers)

\* C5 (symmetry): with a complete value function, two interchangeable
\* players get equal Shapley values.
C5_Symmetry ==
  (Computed /\ Complete) =>
     \A a \in Players : \A b \in Players :
        Interchangeable(a, b) => shapley_vals[a] = shapley_vals[b]

C5_Witness ==
  /\ pc = "returned"
  /\ Complete
  /\ \E a \in Players : \E b \in Players : \E c \in Players :
        /\ a # b
        /\ Interchangeable(a, b)
        /\ ~IsFZero(shapley_vals[a])
        /\ shapley_vals[c] # shapley_vals[a]

\* C6 (null player): with a complete value function, a player who adds 0 to
\* every coalition it could join gets the Shapley value 0.
C6_NullPlayer ==
  (Computed /\ Complete) =>
     \A pl \in Players : NullPlayer(pl) => shapley_vals[pl] = FZero

C6_Witness ==
  /\ pc = "returned"
  /\ Complete
  /\ \E pl \in Players : \E q \in Players :
        /\ NullPlayer(pl)
        /\ shapley_vals[pl] = FZero
        /\ ~IsFZero(shapley_vals[q])

\* the position of the iteration before (q, n) in the nested loops
PrevPn == IF i = 0 THEN pn - 1 ELSE pn

PrevI == IF i = 0 THEN NumPlayers - 1 ELSE i - 1

\* C7 (missing coalition value): a lookup of an absent coalition raises
\* KeyError carrying that coalition's key at the very iteration that needs
\* it, no Shapley values are computed, and no iteration ever goes on with a
\* value made up for an absent key.
C7_MissingKey ==
  /\ pc = "KeyError" =>
        /\ err \notin DOMAIN dic_v
        /\ err \in AllKeys(Players)
        /\ err = PrefixKey(pn, i + 1)
        /\ shapley_vals = None
  /\ (pc # "KeyError" /\ NumPlayers > 0 /\ (pn > 1 \/ i > 0)) =>
        PrefixKey(PrevPn, PrevI + 1) \in DOMAIN dic_v
  /\ (Ended /\ pc # "KeyError") => Complete

C7_Witness ==
  /\ pc = "KeyError"
  /\ pn >= 2
  /\ i >= 1
  /\ err = PrefixKey(pn, i + 1)
  /\ shapley_vals = None

\* C8 (empty player set): a call with no players never returns.
C8_EmptyRejected == NumPlayers = 0 => pc # "returned"

\* C9 (key canonicalization): for identifiers 1..9 the key looked up for the
\* prefix at hand equals the key of a prefix of any permutation exactly when
\* the two prefixes have the same members.
C9_KeyCanonical ==
  InLoop =>
    \A q \in 1..NumPerms : \A n \in 1..NumPlayers :
       (PrefixKey(pn, i + 1) = PrefixKey(q, n))
         <=> (PrefixSet(pn, i + 1) = PrefixSet(q, n))

C9_Witness ==
  /\ InLoop
  /\ i >= 1
  /\ SubSeq(Perm(pn), 1, i + 1) # Sorted(SubSeq(Perm(pn), 1, i + 1))
  /\ \E q \in 1..NumPerms :
        /\ q # pn
        /\ PrefixSet(q, i + 1) = PrefixSet(pn, i + 1)
        /\ SubSeq(Perm(q), 1, i + 1) # SubSeq(Perm(pn), 1, i + 1)
        /\ PrefixKey(q, i + 1) = PrefixKey(pn, i + 1)

\* ------------------------------------------------------------------------
\* forest_fire_model(N, g, n_sims, p_init)
\*                 src/2_power_law_the_self_organized_criticality_model.py
\* ------------------------------------------------------------------------
\* the cells of the padded grid and of its interior
Cells == (0..(GridN + 1)) \X (0..(GridN + 1))

Interior == (1..GridN) \X (1..GridN)

\* line 41
add_tuple(x, y) == <<x[1] + y[1], x[2] + y[2]>>

\* the fire does not spread upwards
actions_no_up == << <<-1, 0>>, <<1, 0>>, <<0, -1>> >>

\* line 84: left, right, down, up, in the order the dict lists them
actions == << <<-1, 0>>, <<1, 0>>, <<0, -1>>, <<0, 1>> >>

\* lines 48-56; spread(g, loc, k) is the for loop of lines 54-56 from the
\* k-th action on
RECURSIVE set_fire(_, _), spread(_, _, _)
set_fire(g, loc) ==
  IF g[loc] = 1
  THEN spread([g EXCEPT ![loc] = 0], loc, 1)
  ELSE g

spread(g, loc, k) ==
  IF k > Len(actions) THEN g
  ELSE spread(set_fire(g, add_tuple(loc, actions[k])), loc, k + 1)

\* the 4-connected component of trees of g that holds loc: the least set
\* holding loc and closed under stepping to a neighbouring tree
Neighbours(c) ==
  {<<c[1] - 1, c[2]>>, <<c[1] + 1, c[2]>>, <<c[1], c[2] - 1>>, <<c[1], c[2] + 1>>}

RECURSIVE Closure(_, _)
Closure(g, S) ==
  LET S2 == S \cup {c \in Cells : g[c] = 1 /\ Neighbours(c) \cap S # {}}
  IN  IF S2 = S THEN S ELSE Closure(g, S2)

Component(g, loc) == IF g[loc] = 1 THEN Closure(g, {loc}) ELSE {}

\* lines 129-133: scipy's label with the cross kernel numbers the
\* 4-connected components in scan order (row by row); un_counts lists their
\* sizes by label
RowMajorLess(a, b) == a[1] < b[1] \/ (a[1] = b[1] /\ a[2] < b[2])

FirstCell(S) == CHOOSE a \in S : \A b \in S : a = b \/ RowMajorLess(a, b)

RECURSIVE SizesInScanOrder(_)
SizesInScanOrder(comps) ==
  IF comps = {} THEN <<>>
  ELSE LET first == CHOOSE C \in comps :
                      \A D \in comps : C = D \/ RowMajorLess(FirstCell(C), FirstCell(D))
       IN  <<Cardinality(first)>> \o SizesInScanOrder(comps \ {first})

un_counts(g) ==
  SizesInScanOrder({Component(g, c) : c \in {d \in Cells : g[d] = 1}})

\* shapley_values is not running
ShapleyIdle == Start(<<>>, <<>>)

\* line 80 and lines 86-98: any N x N forest, padded with a border of zeros
InitFire ==
  /\ ShapleyIdle
  /\ \E trees \in SUBSET Interior :
       /\ grd = [c \in Cells |-> IF c \in trees THEN 1 ELSE 0]
       /\ grd_sims = <<grd>>
  /\ t = 0
  /\ loc_sims = <<>>
  /\ is_tree_sims = <<>>
  /\ will_tree_sims = <<>>
  /\ comp_size_sims = <<>>

\* lines 128-141: what every time point ends with
Record(loc, g, is_tree, will_tree) ==
  /\ grd' = g
  /\ t' = t + 1
  /\ is_tree_sims' = Append(is_tree_sims, is_tree)
  /\ will_tree_sims' = Append(will_tree_sims, will_tree)
  /\ comp_size_sims' = Append(comp_size_sims, un_counts(g))
  /\ grd_sims' = Append(grd_sims, g)
  /\ loc_sims' = Append(loc_sims, loc)
  /\ UNCHANGED shapley_vars

\* lines 107-113: the picked location is empty and rnd < g
GrowTree ==
  /\ t < NSims
  /\ \E loc \in Interior :
       /\ grd[loc] = 0
       /\ Record(loc, [grd EXCEPT ![loc] = 1], 0, 1)

\* lines 107-115: the picked location is empty and rnd >= g
StayEmpty ==
  /\ t < NSims
  /\ \E loc \in Interior :
       /\ grd[loc] = 0
       /\ Record(loc, grd, 0, 0)

\* lines 118-124: the picked location holds a tree and rnd > g
CatchFire ==
  /\ t < NSims
  /\ \E loc \in Interior :
       /\ grd[loc] # 0
       /\ Record(loc, set_fire(grd, loc), 1, 0)

\* lines 118-126: the picked location holds a tree and rnd <= g
StayTree ==
  /\ t < NSims
  /\ \E loc \in Interior :
       /\ grd[loc] # 0
       /\ Record(loc, grd, 1, 1)

NextFire == GrowTree \/ StayEmpty \/ CatchFire \/ StayTree

SpecFire == InitFire /\ [][NextFire]_vars

\* the time points at which the picked tree caught fire
FireSteps ==
  {k \in 1..Len(loc_sims) : is_tree_sims[k] = 1 /\ will_tree_sims[k] = 0}

\* C10 (forest-fire spread): at every time point where the picked tree
\* caught fire, the grid after it is the grid before it with exactly the
\* 4-connected component of the picked tree emptied; every other cell,
\* border included, is as before.
C10_FireSpread ==
  \A k \in FireSteps :
    LET before == grd_sims[k]
        after  == grd_sims[k + 1]
        burnt  == Component(before, loc_sims[k])
    IN  /\ loc_sims[k] \in burnt
        /\ \A c \in Cells :
             after[c] = IF c \in burnt THEN 0 ELSE before[c]

\* a fire burnt a component of several trees, one of them two steps away
\* from the picked tree, while a tree outside the component survived
C10_Witness ==
  \E k \in FireSteps :
    LET before == grd_sims[k]
        after  == grd_sims[k + 1]
        burnt  == Component(before, loc_sims[k])
    IN  /\ Cardinality(burnt) >= 3
        /\ \E c \in burnt : Neighbours(c) \cap Neighbours(loc_sims[k]) = {} /\ c # loc_sims[k]
                            /\ c \notin Neighbours(loc_sims[k])
        /\ \E c \in Interior : c \notin burnt /\ before[c] = 1 /\ after[c] = 1
        /\ grd = after

====
